---- MODULE Spec2Model ----
(***************************************************************************)
(* A model of the PDF-to-text converters:                                  *)
(*   src/pdf_to_text_enterprise.py  (parallel, multiprocessing pool)       *)
(*   src/pdf_to_text.py             (sequential)                           *)
(*                                                                         *)
(* Texts are run-length encoded: a text is a sequence of runs, each run    *)
(* being n >= 1 characters that are all whitespace or all non-whitespace.  *)
(* File names are sequences of dot-separated segments: <<"a","pdf">> is    *)
(* "a.pdf", <<"","pdf">> is ".pdf", <<"","pdf","pdf">> is ".pdf.pdf".      *)
(***************************************************************************)
EXTENDS Integers, Sequences, FiniteSets, TLC

\* ------------------------------------------------------------------------
\* Program constants and bounds
\* ------------------------------------------------------------------------

MIN_TEXT_THRESHOLD == 50

\* largest number of pages of a document in the extraction-policy check
MaxPages == 2

\* ------------------------------------------------------------------------
\* Texts
\* ------------------------------------------------------------------------

Run(w, k) == [ws |-> w, n |-> k]

\* a text of k non-whitespace characters
Chars(k) == <<Run(FALSE, k)>>

\* a text of k whitespace characters
Blank(k) == <<Run(TRUE, k)>>

EmptyText == <<>>

RECURSIVE TextLen(_)
\* len(text)
TextLen(t) == IF t = <<>> THEN 0 ELSE Head(t).n + TextLen(Tail(t))

RECURSIVE lstrip(_)
lstrip(t) == IF t # <<>> /\ Head(t).ws THEN lstrip(Tail(t)) ELSE t

RECURSIVE rstrip(_)
rstrip(t) ==
    IF t # <<>> /\ t[Len(t)].ws THEN rstrip(SubSeq(t, 1, Len(t) - 1)) ELSE t

\* str.strip(): leading and trailing whitespace removed
strip(t) == rstrip(lstrip(t))

RECURSIVE Drop(_, _)
\* text[k:]
Drop(t, k) ==
    IF k = 0 \/ t = <<>> THEN t
    ELSE IF Head(t).n <= k THEN Drop(Tail(t), k - Head(t).n)
    ELSE <<Run(Head(t).ws, Head(t).n - k)>> \o Tail(t)

RECURSIVE JoinNL(_)
\* "\n".join(text_chunks)
JoinNL(chunks) ==
    IF chunks = <<>> THEN EmptyText
    ELSE IF Len(chunks) = 1 THEN chunks[1]
    ELSE chunks[1] \o Blank(1) \o JoinNL(Tail(chunks))

RECURSIVE ConcatPages(_)
\* text = ""; for page: if page_text: text += page_text
ConcatPages(chunks) ==
    IF chunks = <<>> THEN EmptyText
    ELSE (IF chunks[1] # EmptyText THEN chunks[1] ELSE EmptyText)
         \o ConcatPages(Tail(chunks))

\* ------------------------------------------------------------------------
\* Documents and the two extraction engines
\* ------------------------------------------------------------------------

\* What an engine finds in a document: it raises, or it yields one text per
\* page.
Raises == [ok |-> FALSE, pages |-> <<>>]
Pages(ps) == [ok |-> TRUE, pages |-> ps]

\* A document: what PyMuPDF (mu) and what pypdf (py) find in it.
Document(m, p) == [mu |-> m, py |-> p]

Returned(t) == [raised |-> FALSE, text |-> t]
Raised == [raised |-> TRUE, text |-> EmptyText]

extract_with_pymupdf(d) ==
    IF d.mu.ok THEN Returned(JoinNL(d.mu.pages)) ELSE Raised

extract_with_pypdf(d) ==
    IF d.py.ok THEN Returned(ConcatPages(d.py.pages)) ELSE Raised

\* The result of extract_text together with the number of calls it made to
\* each engine.
PolicyResult(r, m, p) ==
    [raised |-> r.raised, text |-> r.text, mu_calls |-> m, py_calls |-> p]

\* mutant: the threshold test forgets .strip()
extract_text_nostrip(d) ==
    LET text == extract_with_pymupdf(d) IN
    IF text.raised THEN PolicyResult(Raised, 1, 0)
    ELSE IF TextLen(text.text) < MIN_TEXT_THRESHOLD
         THEN PolicyResult(extract_with_pypdf(d), 1, 1)
         ELSE PolicyResult(text, 1, 0)

\* mutant: a raising primary engine is swallowed and the fallback is tried
extract_text_tryboth(d) ==
    LET text == extract_with_pymupdf(d) IN
    IF text.raised \/ TextLen(strip(text.text)) < MIN_TEXT_THRESHOLD
    THEN PolicyResult(extract_with_pypdf(d), 1, 1)
    ELSE PolicyResult(text, 1, 0)

extract_text(d) ==
    LET text == extract_with_pymupdf(d) IN
    IF text.raised THEN PolicyResult(Raised, 1, 0)
    ELSE IF TextLen(strip(text.text)) < MIN_TEXT_THRESHOLD
         THEN PolicyResult(extract_with_pypdf(d), 1, 1)
         ELSE PolicyResult(text, 1, 0)

\* ------------------------------------------------------------------------
\* Inputs of the extraction-policy check
\* ------------------------------------------------------------------------

Half == MIN_TEXT_THRESHOLD \div 2

\* page texts around the threshold: two pages of Half-1 characters join to
\* MIN_TEXT_THRESHOLD-1 characters, Half and Half-1 to MIN_TEXT_THRESHOLD;
\* the padded page is longer than the threshold but shorter once stripped
PageTexts ==
    { EmptyText,
      Blank(2),
      Chars(Half - 1),
      Chars(Half),
      Chars(MIN_TEXT_THRESHOLD - 1),
      Chars(MIN_TEXT_THRESHOLD),
      Blank(1) \o Chars(MIN_TEXT_THRESHOLD - 2) \o Blank(2) }

PageSeqs == UNION { [1..k -> PageTexts] : k \in 0..MaxPages }

EngineFindings == {Raises} \cup { Pages(ps) : ps \in PageSeqs }

Documents == { Document(m, p) : m \in EngineFindings, p \in EngineFindings }

NoDocument == Document(Raises, Raises)

NotCalled == [called |-> FALSE, raised |-> FALSE, text |-> EmptyText,
              mu_calls |-> 0, py_calls |-> 0]

\* ------------------------------------------------------------------------
\* Paths
\* ------------------------------------------------------------------------

\* a path relative to a root: the directories below the root, then the name
Path(parent, name) == [parent |-> parent, name |-> name]

\* rglob("*.pdf"): the name ends in ".pdf" (the star also matches the empty
\* string, and pathlib does not hide names that begin with a dot)
MatchesPdf(name) == Len(name) >= 2 /\ name[Len(name)] = "pdf"

\* PurePath.suffix: the part from the last dot on, unless that dot is the
\* first or the last character of the name
HasSuffix(name) ==
    /\ Len(name) >= 2
    /\ ~(Len(name) = 2 /\ name[1] = "")
    /\ name[Len(name)] # ""

\* PurePath.with_suffix(".txt")
with_suffix_txt(name) ==
    IF HasSuffix(name)
    THEN SubSeq(name, 1, Len(name) - 1) \o <<"txt">>
    ELSE name \o <<"txt">>

\* output_root / pdf_path.relative_to(input_root).with_suffix(".txt");
\* entries of the input tree are kept relative to the input root
OutputFile(pdf_path) == Path(pdf_path.parent, with_suffix_txt(pdf_path.name))

\* a directory and all the directories above it, up to the root <<>>
WithParents(dir) == { SubSeq(dir, 1, k) : k \in 0..Len(dir) }

\* ------------------------------------------------------------------------
\* Inputs of a run
\* ------------------------------------------------------------------------

\* most PDF files of an input tree
MaxFiles == 3

\* largest pool
MaxWorkers == 2

DotPdf      == Path(<<>>, <<"", "pdf">>)            \* ".pdf"
DotPdfPdf   == Path(<<>>, <<"", "pdf", "pdf">>)     \* ".pdf.pdf"
ReportPdf   == Path(<<"d">>, <<"a", "v2", "pdf">>)  \* "d/a.v2.pdf"
NotesTxt    == Path(<<>>, <<"a", "txt">>)           \* "a.txt"

InputEntries == {DotPdf, DotPdfPdf, ReportPdf, NotesTxt}

PdfEntries == { e \in InputEntries : MatchesPdf(e.name) }

OutPaths == { OutputFile(e) : e \in PdfEntries }

NoPath == Path(<<>>, <<>>)

\* documents of a run: a text PDF, a scanned PDF on which PyMuPDF finds next
\* to nothing, and a corrupt file
TextPdf    == Document(Pages(<<Chars(Half), Chars(Half)>>), Raises)
ScannedPdf == Document(Pages(<<Blank(2)>>), Pages(<<Chars(Half)>>))
CorruptPdf == Document(Raises, Raises)

RunDocuments == {TextPdf, ScannedPdf, CorruptPdf}

\* what an output file held before the run
OldText == Chars(1)

\* ------------------------------------------------------------------------
\* Output tree
\* ------------------------------------------------------------------------

Absent == [exists |-> FALSE, text |-> EmptyText]
File(t) == [exists |-> TRUE, text |-> t]

\* write(data) at offset 0 of a file opened with mode "w": the data replace
\* what the file holds up to their length; what lies beyond stays (only
\* another writer of the same path can have put it there since the open)
Overwritten(f, data) == File(data \o Drop(f.text, TextLen(data)))

\* ------------------------------------------------------------------------
\* State
\* ------------------------------------------------------------------------

NoResults == [set |-> FALSE, success |-> 0, failed |-> 0, skipped |-> 0]
NoSummary == [printed |-> FALSE, total |-> 0, success |-> 0, skipped |-> 0,
              failed |-> 0]

IdleWorker == [pc |-> "idle", item |-> NoPath, text |-> EmptyText]

ResultTags == {"success", "failed", "skipped"}

VARIABLES
    policy_doc,     \* the document handed to extract_text
    policy_out,     \* what extract_text did with it
    input_kind,     \* the input root: "missing", "file" or "dir"
    tree,           \* the entries below the input root
    docs,           \* the document behind each entry that rglob matches
    out_dirs,       \* the directories of the output tree; <<>> is its root
    out_files,      \* the files of the output tree
    entry,          \* the program started: "none", "cli", "interactive", "simple"
    pc,             \* where the main process is
    overwrite,      \* process_directory's overwrite
    skip_existing,  \* process_directory's skip_existing
    workers,        \* process_directory's workers
    pdf_files,      \* list(input_dir.rglob("*.pdf"))
    total,          \* len(pdf_files)
    results,        \* the results dictionary
    summary,        \* the summary printed
    pending,        \* tasks no worker has taken yet
    wk,             \* the pool's worker processes
    outq,           \* results the workers returned, not yet iterated over
    ret,            \* what process_file returned for each item
    out0,           \* the files of the output tree when the program started
    io_failed,      \* items whose mkdir or write raised
    rerun,          \* the program was started a second time
    did,            \* what has been done for each item so far
    seq             \* what the calls of process_file, one after the other
                    \* in the order the tasks were taken, would have left

policy_vars == <<policy_doc, policy_out>>
input_vars == <<input_kind, tree, docs>>
fs_vars == <<out_dirs, out_files>>
main_vars == <<entry, pc, overwrite, skip_existing, workers, pdf_files, total,
               results, summary>>
pool_vars == <<pending, wk, outq>>
hist_vars == <<ret, out0, io_failed, rerun, did, seq>>

vars == <<policy_doc, policy_out, input_kind, tree, docs, out_dirs, out_files,
          entry, pc, overwrite, skip_existing, workers, pdf_files, total,
          results, summary, pending, wk, outq, ret, out0, io_failed, rerun,
          did, seq>>

\* ------------------------------------------------------------------------
\* Initial states
\* ------------------------------------------------------------------------

\* nothing done for an item: not taken, no engine called;
\* fs: the calls that create directories and write the file were reached
NoWork == [taken |-> 0, mu_calls |-> 0, py_calls |-> 0, fs |-> FALSE]

NothingDone == [f \in PdfEntries |-> NoWork]

\* no call of process_file yet: the output files as found, nothing counted
SeqStart(files) ==
    [files |-> files, simple |-> files,
     success |-> 0, skipped |-> 0, failed |-> 0]

\* no program started yet
InitProcess ==
    /\ entry = "none"
    /\ pc = "idle"
    /\ overwrite = FALSE
    /\ skip_existing = FALSE
    /\ workers = 1
    /\ pdf_files = {}
    /\ total = 0
    /\ results = NoResults
    /\ summary = NoSummary
    /\ pending = {}
    /\ wk = [w \in 1..MaxWorkers |-> IdleWorker]
    /\ outq = <<>>
    /\ ret = [e \in PdfEntries |-> "none"]
    /\ out0 = out_files
    /\ io_failed = {}
    /\ rerun = FALSE
    /\ did = NothingDone
    /\ seq = SeqStart(out_files)

PolicyUnused ==
    /\ policy_doc = NoDocument
    /\ policy_out = NotCalled

\* the input root is a directory holding a file that is no PDF and at most
\* MaxFiles entries named *.pdf; some of the output files may exist already,
\* each in a directory that exists
InitTree ==
    /\ input_kind = "dir"
    /\ tree \in { (InputEntries \ PdfEntries) \cup t :
                     t \in { u \in SUBSET PdfEntries : Cardinality(u) <= MaxFiles } }
    /\ docs \in [{ e \in tree : MatchesPdf(e.name) } -> RunDocuments]
    /\ \E pre \in SUBSET { OutputFile(e) : e \in DOMAIN docs } :
         /\ out_files = [p \in OutPaths |->
                            IF p \in pre THEN File(OldText) ELSE Absent]
         /\ \E root \in SUBSET {<<>>} :
              out_dirs = root \cup UNION { WithParents(p.parent) : p \in pre }

\* the input root is missing, or is a regular file
InitNoTree ==
    /\ input_kind \in {"missing", "file"}
    /\ tree = {}
    /\ docs = [e \in {} |-> NoDocument]
    /\ out_files = [p \in OutPaths |-> Absent]
    /\ out_dirs \in SUBSET {<<>>}

Init ==
    /\ PolicyUnused
    /\ InitTree \/ InitNoTree
    /\ InitProcess

\* ------------------------------------------------------------------------
\* pdf_to_text_enterprise.py: starting the program
\* ------------------------------------------------------------------------

\* input_dir.rglob("*.pdf"): nothing when the root is not a directory
rglob(kind, t) ==
    IF kind = "dir" THEN { e \in t : MatchesPdf(e.name) } ELSE {}

ZeroResults == [set |-> TRUE, success |-> 0, failed |-> 0, skipped |-> 0]

\* a fresh process: nothing returned yet, the output tree as found
ProcessStarts(e) ==
    /\ entry' = e
    /\ ret' = [f \in PdfEntries |-> "none"]
    /\ out0' = out_files
    /\ io_failed' = {}
    /\ did' = NothingDone
    /\ seq' = SeqStart(out_files)
    /\ UNCHANGED <<rerun, policy_vars, input_vars>>

\* sys.exit(code) before process_directory is reached
Exits(code) ==
    /\ pc' = code
    /\ UNCHANGED <<overwrite, skip_existing, workers, pdf_files, total,
                   results, summary, pool_vars, fs_vars>>

\* mutant: the pool is started and the summary printed for an empty list too
process_directory_nocheck(n, ow, se) ==
    /\ overwrite' = ow
    /\ skip_existing' = se
    /\ workers' = n
    /\ pdf_files' = rglob(input_kind, tree)
    /\ total' = Cardinality(pdf_files')
    /\ summary' = NoSummary
    /\ wk' = [w \in 1..MaxWorkers |-> IdleWorker]
    /\ outq' = <<>>
    /\ pc' = "pool"
    /\ results' = ZeroResults
    /\ pending' = pdf_files'

\* process_directory, lines 106-126: list the PDFs, return when there are
\* none, otherwise set the counters to zero and start the pool
process_directory(n, ow, se) ==
    /\ overwrite' = ow
    /\ skip_existing' = se
    /\ workers' = n
    /\ pdf_files' = rglob(input_kind, tree)
    /\ total' = Cardinality(pdf_files')
    /\ summary' = NoSummary
    /\ wk' = [w \in 1..MaxWorkers |-> IdleWorker]
    /\ outq' = <<>>
    /\ IF total' = 0
       THEN /\ pc' = "no_pdfs"
            /\ results' = NoResults
            /\ pending' = {}
       ELSE /\ pc' = "pool"
            /\ results' = ZeroResults
            /\ pending' = pdf_files'

\* main(), lines 171-208, without --interactive
main(n, ow, se) ==
    /\ pc = "idle"
    /\ ProcessStarts("cli")
    /\ IF input_kind = "missing"
       THEN Exits("exit1")
       ELSE /\ out_dirs' = out_dirs \cup {<<>>}
            /\ UNCHANGED out_files
            /\ process_directory(n, ow, se)

\* interactive_mode(), lines 145-164; create is the answer to "Create it?"
interactive_mode(n, create) ==
    /\ pc = "idle"
    /\ ProcessStarts("interactive")
    /\ IF input_kind # "dir"
       THEN Exits("exit1")
       ELSE IF <<>> \notin out_dirs /\ ~create
       THEN Exits("exit0")
       ELSE /\ out_dirs' = out_dirs \cup {<<>>}
            /\ UNCHANGED out_files
            /\ process_directory(n, FALSE, TRUE)

\* ------------------------------------------------------------------------
\* pdf_to_text_enterprise.py: process_file in a worker of the pool
\* ------------------------------------------------------------------------

\* mutant: the skip_existing test is lost
SkipsExisting_never(se, exists) == FALSE

\* mutant: the skip_existing test looks for a missing output
SkipsExisting_absent(se, exists) == se /\ ~exists

\* line 84: skip_existing and output_file.exists()
SkipsExisting(se, exists) == se /\ exists

\* mutant: overwrite is ignored
SkipsUnlessOverwrite_always(ow, exists) == exists

\* mutant: the sense of overwrite is inverted
SkipsUnlessOverwrite_inverted(ow, exists) == exists /\ ow

\* line 87: output_file.exists() and not overwrite
SkipsUnlessOverwrite(ow, exists) == exists /\ ~ow

Exists(p) == out_files[p].exists

\* lines 77-99, run from its first line to its last with no other process
\* in between and no I/O error, over the output files given
process_file(files, f, ow, se) ==
    LET out == OutputFile(f)
        r == extract_text(docs[f])
    IN  IF SkipsExisting(se, files[out].exists)
        THEN [result |-> "skipped", files |-> files]
        ELSE IF SkipsUnlessOverwrite(ow, files[out].exists)
        THEN [result |-> "skipped", files |-> files]
        ELSE IF r.raised
        THEN [result |-> "failed", files |-> files]
        ELSE [result |-> "success",
              files |-> [files EXCEPT ![out] = File(r.text)]]

\* pdf_to_text.py, lines 75-85, run the same way
simple_file(files, f) ==
    LET r == extract_text(docs[f]) IN
    IF r.raised THEN files
    ELSE [files EXCEPT ![OutputFile(f)] = File(r.text)]

\* one more call in the sequence of calls
SeqCall(sq, f, ow, se) ==
    LET r == process_file(sq.files, f, ow, se) IN
    [files |-> r.files,
     simple |-> IF ow /\ ~se THEN simple_file(sq.simple, f) ELSE sq.simple,
     success |-> sq.success + (IF r.result = "success" THEN 1 ELSE 0),
     skipped |-> sq.skipped + (IF r.result = "skipped" THEN 1 ELSE 0),
     failed |-> sq.failed + (IF r.result = "failed" THEN 1 ELSE 0)]

\* mutant: the pool runs more processes than process_directory was given
Take_unbounded(w) ==
    /\ pc = "pool"
    /\ wk[w].pc = "idle"
    /\ \E f \in pending :
         /\ pending' = pending \ {f}
         /\ wk' = [wk EXCEPT ![w] = [pc |-> "l84", item |-> f,
                                     text |-> EmptyText]]
         /\ did' = [did EXCEPT ![f].taken = @ + 1]
         /\ seq' = SeqCall(seq, f, overwrite, skip_existing)
    /\ UNCHANGED <<policy_vars, input_vars, fs_vars, main_vars, outq,
                   ret, out0, io_failed, rerun>>

\* mutant: a task a worker has taken stays in the queue
Take_again(w) ==
    /\ pc = "pool"
    /\ w \in 1..workers
    /\ wk[w].pc = "idle"
    /\ \E f \in pending :
         /\ pending' = pending
         /\ wk' = [wk EXCEPT ![w] = [pc |-> "l84", item |-> f,
                                     text |-> EmptyText]]
         /\ did' = [did EXCEPT ![f].taken = @ + 1]
         /\ seq' = SeqCall(seq, f, overwrite, skip_existing)
    /\ UNCHANGED <<policy_vars, input_vars, fs_vars, main_vars, outq,
                   ret, out0, io_failed, rerun>>

\* a worker takes the next task; the order of pdf_files is whatever rglob
\* yields, so the next task is any task not yet taken
Take(w) ==
    /\ pc = "pool"
    /\ w \in 1..workers
    /\ wk[w].pc = "idle"
    /\ \E f \in pending :
         /\ pending' = pending \ {f}
         /\ wk' = [wk EXCEPT ![w] = [pc |-> "l84", item |-> f,
                                     text |-> EmptyText]]
         /\ did' = [did EXCEPT ![f].taken = @ + 1]
         /\ seq' = SeqCall(seq, f, overwrite, skip_existing)
    /\ UNCHANGED <<policy_vars, input_vars, fs_vars, main_vars, outq,
                   ret, out0, io_failed, rerun>>

\* process_file returns r: the result goes back to the parent process
Return(w, r) ==
    /\ wk' = [wk EXCEPT ![w] = IdleWorker]
    /\ outq' = Append(outq, r)
    /\ ret' = [ret EXCEPT ![wk[w].item] = r]

GoTo(w, label) ==
    /\ wk' = [wk EXCEPT ![w].pc = label]
    /\ UNCHANGED <<outq, ret>>

\* extract_text was called for f and did r
Extracted(d, f, r) ==
    [d EXCEPT ![f].mu_calls = @ + r.mu_calls, ![f].py_calls = @ + r.py_calls]

\* lines 84-85
CheckSkipExisting(w) ==
    /\ wk[w].pc = "l84"
    /\ IF SkipsExisting(skip_existing, Exists(OutputFile(wk[w].item)))
       THEN Return(w, "skipped")
       ELSE GoTo(w, "l87")
    /\ UNCHANGED <<policy_vars, input_vars, fs_vars, main_vars, pending,
                   out0, io_failed, rerun, did, seq>>

\* mutant: the text is extracted before the overwrite test
CheckOverwrite_extractfirst(w) ==
    /\ wk[w].pc = "l87"
    /\ LET r == extract_text(docs[wk[w].item]) IN
       /\ did' = Extracted(did, wk[w].item, r)
       /\ IF r.raised
          THEN Return(w, "failed")
          ELSE IF SkipsUnlessOverwrite(overwrite, Exists(OutputFile(wk[w].item)))
          THEN Return(w, "skipped")
          ELSE /\ wk' = [wk EXCEPT ![w].pc = "l92", ![w].text = r.text]
               /\ UNCHANGED <<outq, ret>>
    /\ UNCHANGED <<policy_vars, input_vars, fs_vars, main_vars, pending,
                   out0, io_failed, rerun, seq>>

\* mutant: the output file is opened for writing before the text is
\* extracted
CheckOverwrite_openfirst(w) ==
    /\ wk[w].pc = "l87"
    /\ LET r == extract_text(docs[wk[w].item]) IN
       IF SkipsUnlessOverwrite(overwrite, Exists(OutputFile(wk[w].item)))
       THEN /\ Return(w, "skipped")
            /\ UNCHANGED <<did, fs_vars>>
       ELSE /\ did' = [Extracted(did, wk[w].item, r) EXCEPT
                          ![wk[w].item].fs = TRUE]
            /\ out_dirs' = out_dirs \cup WithParents(OutputFile(wk[w].item).parent)
            /\ out_files' = [out_files EXCEPT
                                ![OutputFile(wk[w].item)] = File(EmptyText)]
            /\ IF r.raised
               THEN Return(w, "failed")
               ELSE /\ wk' = [wk EXCEPT ![w].pc = "l92", ![w].text = r.text]
                    /\ UNCHANGED <<outq, ret>>
    /\ UNCHANGED <<policy_vars, input_vars, main_vars, pending,
                   out0, io_failed, rerun, seq>>

\* lines 87-90, and lines 97-99 when extract_text raises; extract_text
\* reads the input file only, which no process writes
CheckOverwrite(w) ==
    /\ wk[w].pc = "l87"
    /\ LET r == extract_text(docs[wk[w].item]) IN
       IF SkipsUnlessOverwrite(overwrite, Exists(OutputFile(wk[w].item)))
       THEN /\ Return(w, "skipped")
            /\ UNCHANGED did
       ELSE /\ did' = Extracted(did, wk[w].item, r)
            /\ IF r.raised
               THEN Return(w, "failed")
               ELSE /\ wk' = [wk EXCEPT ![w].pc = "l92", ![w].text = r.text]
                    /\ UNCHANGED <<outq, ret>>
    /\ UNCHANGED <<policy_vars, input_vars, fs_vars, main_vars, pending,
                   out0, io_failed, rerun, seq>>

\* mutant: the error of mkdir or write_text escapes process_file and the
\* worker never hands a result back
IOFails_dies(w) ==
    /\ wk' = [wk EXCEPT ![w].pc = "dead"]
    /\ io_failed' = io_failed \cup {wk[w].item}
    /\ UNCHANGED <<outq, ret>>

\* lines 97-99 after mkdir or write_text raised
IOFails(w) ==
    /\ Return(w, "failed")
    /\ io_failed' = io_failed \cup {wk[w].item}

\* line 92: output_file.parent.mkdir(parents=True, exist_ok=True)
MakeDirs(w) ==
    /\ wk[w].pc = "l92"
    /\ did' = [did EXCEPT ![wk[w].item].fs = TRUE]
    /\ \/ /\ out_dirs' = out_dirs \cup WithParents(OutputFile(wk[w].item).parent)
          /\ GoTo(w, "l93")
          /\ UNCHANGED io_failed
       \/ /\ IOFails(w)
          /\ UNCHANGED out_dirs
    /\ UNCHANGED <<policy_vars, input_vars, out_files, main_vars, pending,
                   out0, rerun, seq>>

\* line 93, first half: write_text opens the file with mode "w", which
\* creates it or empties it
OpenForWrite(w) ==
    /\ wk[w].pc = "l93"
    /\ \/ /\ out_files' = [out_files EXCEPT
                              ![OutputFile(wk[w].item)] = File(EmptyText)]
          /\ GoTo(w, "l93w")
          /\ UNCHANGED io_failed
       \/ /\ IOFails(w)
          /\ UNCHANGED out_files
    /\ UNCHANGED <<policy_vars, input_vars, out_dirs, main_vars, pending,
                   out0, rerun, did, seq>>

\* line 93, second half, and line 95: the text is written and the file
\* closed
WriteText(w) ==
    /\ wk[w].pc = "l93w"
    /\ \/ /\ out_files' = [out_files EXCEPT
                              ![OutputFile(wk[w].item)] =
                                  Overwritten(@, wk[w].text)]
          /\ Return(w, "success")
          /\ UNCHANGED io_failed
       \/ /\ IOFails(w)
          /\ UNCHANGED out_files
    /\ UNCHANGED <<policy_vars, input_vars, out_dirs, main_vars, pending,
                   out0, rerun, did, seq>>

\* ------------------------------------------------------------------------
\* pdf_to_text_enterprise.py: the parent process collects the results
\* ------------------------------------------------------------------------

\* mutant: skipped results are not counted
Tally_lossy(res, r) ==
    IF r = "skipped" THEN res ELSE [res EXCEPT ![r] = @ + 1]

\* line 128: results[result] += 1
Tally(res, r) == [res EXCEPT ![r] = @ + 1]

\* lines 127-128: one result of imap_unordered
Collect ==
    /\ pc = "pool"
    /\ outq # <<>>
    /\ results' = Tally(results, Head(outq))
    /\ outq' = Tail(outq)
    /\ UNCHANGED <<policy_vars, input_vars, fs_vars, entry, pc, overwrite,
                   skip_existing, workers, pdf_files, total, summary, pending,
                   wk, hist_vars>>

\* lines 132-138
Summary(n, res) ==
    [printed |-> TRUE, total |-> n, success |-> res.success,
     skipped |-> res.skipped, failed |-> res.failed]

\* lines 126-138: every task has been run and its result iterated over, so
\* imap_unordered is exhausted; the pool is closed and the summary printed
PrintSummary ==
    /\ pc = "pool"
    /\ pending = {}
    /\ \A w \in 1..MaxWorkers : wk[w].pc = "idle"
    /\ outq = <<>>
    /\ summary' = Summary(total, results)
    /\ pc' = "done"
    /\ UNCHANGED <<policy_vars, input_vars, fs_vars, entry, overwrite,
                   skip_existing, workers, pdf_files, total, results,
                   pool_vars, hist_vars>>

\* ------------------------------------------------------------------------
\* pdf_to_text.py
\* ------------------------------------------------------------------------

\* process_directory, lines 60-72
simple_process_directory ==
    /\ pc = "idle"
    /\ ProcessStarts("simple")
    /\ IF input_kind # "dir"
       THEN Exits("exit1")
       ELSE /\ out_dirs' = out_dirs \cup {<<>>}
            /\ pdf_files' = rglob(input_kind, tree)
            /\ pending' = pdf_files'
            /\ pc' = "loop"
            /\ UNCHANGED <<out_files, overwrite, skip_existing, workers,
                           total, results, summary, wk, outq>>

\* lines 74-85: one iteration of the loop, for the file f; fault is the call
\* that raises an I/O error, if any
simple_convert(f, fault) ==
    /\ pc = "loop"
    /\ f \in pending
    /\ pending' = pending \ {f}
    /\ LET r == extract_text(docs[f])
           out == OutputFile(f)
       IN  IF r.raised
           THEN /\ fault = "none"
                /\ ret' = [ret EXCEPT ![f] = "failed"]
                /\ did' = Extracted([did EXCEPT ![f].taken = @ + 1], f, r)
                /\ UNCHANGED <<fs_vars, io_failed>>
           ELSE /\ did' = [Extracted(did, f, r) EXCEPT
                              ![f].taken = @ + 1, ![f].fs = TRUE]
                /\ ret' = [ret EXCEPT ![f] =
                              IF fault = "none" THEN "success" ELSE "failed"]
                /\ io_failed' = IF fault = "none" THEN io_failed
                                ELSE io_failed \cup {f}
                /\ out_dirs' = IF fault = "mkdir" THEN out_dirs
                               ELSE out_dirs \cup WithParents(out.parent)
                /\ out_files' =
                      IF fault \in {"mkdir", "open"} THEN out_files
                      ELSE IF fault = "write"
                      THEN [out_files EXCEPT ![out] = File(EmptyText)]
                      ELSE [out_files EXCEPT ![out] = File(r.text)]
    /\ seq' = [seq EXCEPT !.simple = simple_file(@, f)]
    /\ UNCHANGED <<policy_vars, input_vars, main_vars, wk, outq, out0, rerun>>

\* line 87
simple_complete ==
    /\ pc = "loop"
    /\ pending = {}
    /\ pc' = "done"
    /\ UNCHANGED <<policy_vars, input_vars, fs_vars, entry, overwrite,
                   skip_existing, workers, pdf_files, total, results, summary,
                   pool_vars, hist_vars>>

\* ------------------------------------------------------------------------
\* Specifications
\* ------------------------------------------------------------------------

Terminal == {"exit0", "exit1", "no_pdfs", "done"}

IOFaults == {"none", "mkdir", "open", "write"}

StartEnterprise ==
    \E n \in 1..MaxWorkers, ow \in BOOLEAN, se \in BOOLEAN : main(n, ow, se)

StartInteractive ==
    \E n \in 1..MaxWorkers, create \in BOOLEAN : interactive_mode(n, create)

WorkerStep ==
    \E w \in 1..MaxWorkers :
        \/ Take(w)
        \/ CheckSkipExisting(w)
        \/ CheckOverwrite(w)
        \/ MakeDirs(w)
        \/ OpenForWrite(w)
        \/ WriteText(w)

SimpleStep ==
    \/ simple_process_directory
    \/ \E f \in PdfEntries, fault \in IOFaults : simple_convert(f, fault)
    \/ simple_complete

Next ==
    \/ StartEnterprise
    \/ StartInteractive
    \/ WorkerStep
    \/ Collect
    \/ PrintSummary
    \/ SimpleStep

Spec == Init /\ [][Next]_vars

\* --- a run whose processes are scheduled fairly ---

\* every call returns or raises, the operating system lets every worker
\* that can take a step take one, and the parent process keeps iterating
\* over imap_unordered
Fairness ==
    /\ WF_vars(WorkerStep)
    /\ WF_vars(Collect)
    /\ WF_vars(PrintSummary)

\* the documents of the fair runs: extraction returns text, or raises
LiveDocs == {TextPdf, CorruptPdf}

\* the fair runs start with an output directory that is empty (a first run)
\* or holds the output of every PDF (a repeated run)
InitLive ==
    /\ Init
    /\ input_kind = "dir"
    /\ <<>> \in out_dirs
    /\ \A f \in DOMAIN docs : docs[f] \in LiveDocs
    /\ \/ \A p \in OutPaths : ~out_files[p].exists
       \/ \A f \in DOMAIN docs : out_files[OutputFile(f)].exists

NextLive ==
    \/ StartEnterprise
    \/ WorkerStep
    \/ Collect
    \/ PrintSummary

SpecLive == InitLive /\ [][NextLive]_vars /\ Fairness

\* --- the program run a second time over the same trees ---

Again ==
    /\ pc \in Terminal
    /\ ~rerun
    /\ rerun' = TRUE
    /\ entry' = "none"
    /\ pc' = "idle"
    /\ overwrite' = FALSE
    /\ skip_existing' = FALSE
    /\ workers' = 1
    /\ pdf_files' = {}
    /\ total' = 0
    /\ results' = NoResults
    /\ summary' = NoSummary
    /\ pending' = {}
    /\ wk' = [w \in 1..MaxWorkers |-> IdleWorker]
    /\ outq' = <<>>
    /\ ret' = [f \in PdfEntries |-> "none"]
    /\ out0' = out_files
    /\ io_failed' = {}
    /\ did' = NothingDone
    /\ seq' = SeqStart(out_files)
    /\ UNCHANGED <<policy_vars, input_vars, fs_vars>>

\* the second run is a run of the parallel converter with skip_existing set
SecondRun ==
    /\ rerun
    /\ \/ \E n \in 1..MaxWorkers, ow \in BOOLEAN : main(n, ow, TRUE)
       \/ StartInteractive
       \/ WorkerStep
       \/ Collect
       \/ PrintSummary

NextTwice ==
    \/ ~rerun /\ Next
    \/ Again
    \/ SecondRun

SpecTwice == Init /\ [][NextTwice]_vars

\* --- the extraction policy on its own ---

InitPolicy ==
    /\ policy_doc \in Documents
    /\ policy_out = NotCalled
    /\ InitNoTree
    /\ input_kind = "missing"
    /\ out_dirs = {}
    /\ InitProcess

\* one call of extract_text(pdf_path)
CallExtractText ==
    /\ ~policy_out.called
    /\ policy_out' = [called |-> TRUE] @@ extract_text(policy_doc)
    /\ UNCHANGED <<policy_doc, input_vars, fs_vars, main_vars, pool_vars,
                   hist_vars>>

NextPolicy == CallExtractText

SpecPolicy == InitPolicy /\ [][NextPolicy]_vars

\* ------------------------------------------------------------------------
\* Properties
\* ------------------------------------------------------------------------

Enterprise == entry \in {"cli", "interactive"}

\* the text extract_text returns for the item f
Fresh(f) == extract_text(docs[f]).text

\* extraction, directory creation or write failed for the item f
Fails(f) == extract_text(docs[f]).raised \/ f \in io_failed

PreExisting(f) == out0[OutputFile(f)].exists

\* no other item of the run is mapped to the output path of f
Alone(f) == \A g \in pdf_files : g # f => OutputFile(g) # OutputFile(f)

\* C1: when a run of the batch coordinator completes, the total it reports
\* equals success + skipped + failed, and is the number of work items.
C1_TotalIsSum ==
    summary.printed =>
        /\ summary.total = summary.success + summary.skipped + summary.failed
        /\ summary.total = Cardinality(pdf_files)

C1_Witness ==
    /\ summary.printed
    /\ summary.success >= 1
    /\ summary.skipped >= 1
    /\ summary.failed >= 1

\* C2: fault isolation.  When no output pre-exists and exactly one item
\* fails (its extractor, directory creation or write raises) while all the
\* others succeed, the run ends with failed = 1 and success = N - 1.
C2_FaultIsolation ==
    ( /\ summary.printed
      /\ \A f \in pdf_files : ~PreExisting(f)
      /\ Cardinality({ f \in pdf_files : Fails(f) }) = 1 )
    => /\ summary.failed = 1
       /\ summary.success = summary.total - 1

C4_SkipExistingKeeps ==
    (Enterprise /\ skip_existing) =>
        \A f \in pdf_files :
            PreExisting(f) =>
                /\ out_files[OutputFile(f)] = out0[OutputFile(f)]
                /\ ret[f] \in {"none", "skipped"}
                /\ pc = "done" => ret[f] = "skipped"

C4_Witness ==
    /\ pc = "done" /\ entry = "cli" /\ skip_existing /\ overwrite
    /\ \E f \in pdf_files :
         /\ PreExisting(f)
         /\ ret[f] = "skipped"
         /\ out_files[OutputFile(f)] = File(OldText)

\* C5: with neither skip_existing nor overwrite set, an item whose output
\* pre-exists is Skipped and its output file is what it was before the run.
C5_NoOverwriteKeeps ==
    (Enterprise /\ pc \in {"pool", "done"} /\ ~skip_existing /\ ~overwrite) =>
        \A f \in pdf_files :
            PreExisting(f) =>
                /\ out_files[OutputFile(f)] = out0[OutputFile(f)]
                /\ ret[f] \in {"none", "skipped"}
                /\ pc = "done" => ret[f] = "skipped"

C5_Witness ==
    /\ pc = "done" /\ Enterprise /\ ~skip_existing /\ ~overwrite
    /\ \E f \in pdf_files :
         /\ PreExisting(f)
         /\ ret[f] = "skipped"
         /\ out_files[OutputFile(f)] = File(OldText)

\* C6: idempotence.  When the program is run again with skip_existing set
\* over a tree whose every output file is present after the first run, the
\* second run ends with success = 0 and skipped = total, and every output
\* file is what the first run left.
C6_SecondRunSkipsAll ==
    ( /\ rerun /\ pc = "done" /\ Enterprise /\ skip_existing
      /\ \A f \in pdf_files : PreExisting(f) )
    => /\ summary.success = 0
       /\ summary.skipped = summary.total
       /\ out_files = out0

C6_Witness ==
    /\ rerun /\ pc = "done" /\ Enterprise /\ skip_existing
    /\ \A f \in pdf_files : PreExisting(f)
    /\ summary.total >= 2
    /\ summary.skipped = summary.total
    /\ \E f \in pdf_files : out0[OutputFile(f)] = File(Fresh(f))

ShortPrimary(d) ==
    TextLen(strip(JoinNL(d.mu.pages))) < MIN_TEXT_THRESHOLD

\* C7 as claimed: when the primary extractor raises and the fallback would
\* succeed, extract_text returns the fallback's text.
C7_FallbackOnPrimaryError ==
    (policy_out.called /\ ~policy_doc.mu.ok /\ policy_doc.py.ok) =>
        /\ ~policy_out.raised
        /\ policy_out.text = ConcatPages(policy_doc.py.pages)

\* C7, amended: extract_text fails exactly when the primary extractor
\* raises, or the primary output is short and the fallback raises; when the
\* primary raises the fallback is not tried, even if it would succeed.
C7_PrimaryErrorPropagates ==
    policy_out.called =>
        /\ policy_out.raised <=>
              \/ ~policy_doc.mu.ok
              \/ ShortPrimary(policy_doc) /\ ~policy_doc.py.ok
        /\ ~policy_doc.mu.ok => policy_out.py_calls = 0

C7_Witness ==
    /\ policy_out.called
    /\ ~policy_doc.mu.ok
    /\ policy_doc.py.ok
    /\ TextLen(ConcatPages(policy_doc.py.pages)) >= MIN_TEXT_THRESHOLD
    /\ policy_out.raised

\* C8: when the primary extractor returns text whose stripped length is
\* below 50, the fallback is invoked exactly once and its output returned
\* verbatim, short or empty as it may be; when the stripped length is 50 or
\* more, the fallback is not invoked and the primary output is returned
\* unchanged.
C8_FallbackBelowThreshold ==
    (policy_out.called /\ policy_doc.mu.ok) =>
        IF ShortPrimary(policy_doc)
        THEN /\ policy_out.mu_calls = 1
             /\ policy_out.py_calls = 1
             /\ policy_doc.py.ok =>
                   /\ ~policy_out.raised
                   /\ policy_out.text = ConcatPages(policy_doc.py.pages)
        ELSE /\ policy_out.mu_calls = 1
             /\ policy_out.py_calls = 0
             /\ ~policy_out.raised
             /\ policy_out.text = JoinNL(policy_doc.mu.pages)

\* the primary text is longer than the threshold, but not once stripped,
\* and the empty fallback text is what extract_text returns
C8_Witness ==
    /\ policy_out.called
    /\ policy_doc.mu.ok
    /\ TextLen(JoinNL(policy_doc.mu.pages)) >= MIN_TEXT_THRESHOLD
    /\ ShortPrimary(policy_doc)
    /\ policy_doc.py.ok
    /\ ConcatPages(policy_doc.py.pages) = EmptyText
    /\ policy_out.py_calls = 1
    /\ ~policy_out.raised
    /\ policy_out.text = EmptyText

\* C9: when the input root is missing or is not a directory, every program
\* aborts with an error before any processing: nothing is listed, no worker
\* gets a task, nothing is written and no summary is printed.
C9_InvalidRootAborts ==
    (entry # "none" /\ input_kind # "dir") =>
        /\ pc = "exit1"
        /\ pending = {}
        /\ ~results.set
        /\ ~summary.printed

\* C10 as claimed: over an empty list of work items the coordinator returns
\* a summary of zeros and starts no worker.
C10_EmptyListZeroSummary ==
    (Enterprise /\ pc \notin {"idle", "exit0", "exit1"} /\ total = 0) =>
        /\ summary = Summary(0, ZeroResults)
        /\ \A w \in 1..MaxWorkers : wk[w].pc = "idle"

\* C10, amended: over an empty list of work items the coordinator starts no
\* worker and returns without a summary: no counter is created and nothing
\* is printed but the notice that no PDF was found.
C10_EmptyListNoSummary ==
    (Enterprise /\ pc \notin {"idle", "exit0", "exit1"} /\ total = 0) =>
        /\ pc = "no_pdfs"
        /\ ~summary.printed
        /\ ~results.set
        /\ pending = {}
        /\ outq = <<>>
        /\ \A w \in 1..MaxWorkers : wk[w].pc = "idle"

C10_Witness ==
    /\ Enterprise
    /\ input_kind = "dir"
    /\ tree # {}
    /\ pc = "no_pdfs"
    /\ total = 0
    /\ ~summary.printed

\* C11: a started run of the batch coordinator always completes.  With every
\* extractor call returning or raising and the processes scheduled fairly,
\* a run that has started its pool eventually prints its summary, with an
\* outcome for every work item, however many of them failed.
C11_RunCompletes ==
    (pc = "pool") ~>
        (/\ pc = "done"
         /\ summary.printed
         /\ \A f \in pdf_files : ret[f] \in ResultTags)

C11_Witness ==
    /\ Enterprise
    /\ pc = "done"
    /\ summary.printed
    /\ Cardinality(pdf_files) >= 2
    /\ \A f \in pdf_files : ret[f] = "failed"
    /\ io_failed # {}
    /\ io_failed # pdf_files

\* the workers that hold the item f
Holders(f) == { w \in 1..MaxWorkers : wk[w].pc # "idle" /\ wk[w].item = f }

\* the results of kind t that wait for the parent process
Waiting(t) == { i \in 1..Len(outq) : outq[i] = t }

\* C12: within a run each work item is taken once, by one worker, and
\* yields one outcome; an item that failed is not taken again; each outcome
\* is counted once by the parent process.
C12_ExactlyOnce ==
    (Enterprise /\ pc \in {"pool", "done"}) =>
        /\ \A f \in pdf_files :
              /\ did[f].taken = (IF f \in pending THEN 0 ELSE 1)
              /\ Cardinality(Holders(f)) + (IF ret[f] \in ResultTags THEN 1 ELSE 0)
                    = did[f].taken
              /\ ret[f] = "failed" => (f \notin pending /\ Holders(f) = {})
        /\ \A t \in ResultTags :
              results[t] + Cardinality(Waiting(t))
                  = Cardinality({ f \in pdf_files : ret[f] = t })
        /\ pc = "done" =>
              /\ \A f \in pdf_files : did[f].taken = 1 /\ ret[f] \in ResultTags
              /\ \A t \in ResultTags :
                    summary[t] = Cardinality({ f \in pdf_files : ret[f] = t })

C12_Witness ==
    /\ Enterprise
    /\ pc = "done"
    /\ workers >= 2
    /\ Cardinality(pdf_files) >= 3
    /\ \E f \in pdf_files : ret[f] = "failed"
    /\ \E f \in pdf_files : ret[f] = "success"
    /\ \E f \in pdf_files : ret[f] = "skipped"

\* the worker w is between opening its output file and closing it, or about
\* to open it
Writing(w) == wk[w].pc \in {"l93", "l93w"}

\* C13: no two workers ever write the same output path: two items of a run
\* are never mapped to one output file, so in no reachable state are two
\* workers writing the same file.
C13_DistinctOutputs ==
    \A v \in 1..MaxWorkers, w \in 1..MaxWorkers :
        (v # w /\ Writing(v) /\ Writing(w)) =>
            /\ wk[v].item # wk[w].item
            /\ OutputFile(wk[v].item) # OutputFile(wk[w].item)

\* the name with its final extension replaced by "txt"
ReplacedExtension(name) == SubSeq(name, 1, Len(name) - 1) \o <<"txt">>

\* C14: path mapping.  The output path of every matched input keeps the
\* relative directories and replaces only the final extension of the name
\* by "txt"; after a Success outcome that file and all its parent
\* directories exist.
C14_PathMapping ==
    \A f \in pdf_files :
        /\ OutputFile(f) = Path(f.parent, ReplacedExtension(f.name))
        /\ ret[f] = "success" =>
              /\ Exists(OutputFile(f))
              /\ WithParents(OutputFile(f).parent) \subseteq out_dirs

\* the items taken by a worker that has not returned their result yet
InFlight == { f \in pdf_files : did[f].taken > 0 /\ ret[f] \notin ResultTags }

\* C15: backpressure.  In every reachable state of a run of the batch
\* coordinator, at most `workers` items are in flight.
C15_Backpressure ==
    Enterprise => Cardinality(InFlight) <= workers

C15_Witness ==
    /\ Enterprise
    /\ pc = "pool"
    /\ workers < MaxWorkers
    /\ Cardinality(InFlight) = workers
    /\ pending # {}

\* C16: an item whose output file does not pre-exist is never Skipped:
\* whatever the flags, extraction is attempted and the outcome is Success,
\* with the output file created, or Failed.  Equivalently, an item is
\* Skipped exactly when its output exists and skip_existing is set or
\* overwrite is not.
C16_SkippedIffExisting ==
    Enterprise =>
        \A f \in pdf_files :
            ret[f] \in ResultTags =>
                /\ ~PreExisting(f) =>
                      /\ ret[f] \in {"success", "failed"}
                      /\ did[f].mu_calls >= 1
                      /\ ret[f] = "success" => Exists(OutputFile(f))
                /\ ret[f] = "skipped" <=>
                      (PreExisting(f) /\ (skip_existing \/ ~overwrite))

\* C17: the result of a run does not depend on scheduling.  With the input
\* tree, the initial output tree, the flags and the extractors fixed and no
\* I/O error, every interleaving of the workers and every worker count
\* ends with the counters and the output files that the calls of
\* process_file leave when made one after the other in the order of the
\* task list.
C17_SchedulingIndependent ==
    (Enterprise /\ pc = "done" /\ io_failed = {}) =>
        /\ summary.success = seq.success
        /\ summary.skipped = seq.skipped
        /\ summary.failed = seq.failed
        /\ out_files = seq.files

\* the worker w runs process_file for an item whose output pre-exists and
\* whose extraction raises, with overwrite set and skip_existing not set
FailingOverExisting(w) ==
    /\ Enterprise
    /\ overwrite
    /\ ~skip_existing
    /\ wk[w].pc # "idle"
    /\ PreExisting(wk[w].item)
    /\ extract_text(docs[wk[w].item]).raised

\* C18: a failed extraction never damages existing output.  For an item
\* whose output pre-exists, with overwrite set and skip_existing not set,
\* whose extraction raises, no step of process_file creates a directory or
\* changes a file, the pre-existing file included, and process_file returns
\* Failed, having called the extractor and reached neither mkdir nor the
\* write.
C18_FailedExtractionFrame ==
    [][ \A w \in 1..MaxWorkers :
          (FailingOverExisting(w) /\ wk'[w] # wk[w]) =>
              /\ UNCHANGED fs_vars
              /\ wk'[w].pc = "idle" =>
                    /\ ret'[wk[w].item] = "failed"
                    /\ did'[wk[w].item].mu_calls >= 1
                    /\ ~did'[wk[w].item].fs ]_vars

C18_Witness ==
    /\ Enterprise
    /\ overwrite
    /\ ~skip_existing
    /\ pc = "done"
    /\ \E f \in pdf_files :
          /\ PreExisting(f)
          /\ extract_text(docs[f]).raised
          /\ ret[f] = "failed"
          /\ out_files[OutputFile(f)] = File(OldText)
    /\ \E g \in pdf_files : ret[g] = "success"

\* C19: a Skipped item does no work.  Whenever a worker returns Skipped,
\* neither the primary nor the fallback extractor was called for the item,
\* the calls that create directories and write the file were not reached,
\* and the step that returns changes nothing in the output tree.
C19_SkippedDoesNothing ==
    [][ \A w \in 1..MaxWorkers :
          ( /\ Enterprise
            /\ wk[w].pc # "idle"
            /\ wk'[w].pc = "idle"
            /\ ret'[wk[w].item] = "skipped" ) =>
              /\ UNCHANGED fs_vars
              /\ did'[wk[w].item].mu_calls = 0
              /\ did'[wk[w].item].py_calls = 0
              /\ ~did'[wk[w].item].fs ]_vars

C19_Witness ==
    /\ Enterprise
    /\ ~skip_existing
    /\ ~overwrite
    /\ pc = "done"
    /\ \E f \in pdf_files :
          /\ ret[f] = "skipped"
          /\ PreExisting(f)
          /\ out_files[OutputFile(f)] = File(OldText)
    /\ \E g \in pdf_files : ret[g] = "success" /\ did[g].py_calls = 1

\* a converter has run to its end over an input directory, with no I/O
\* error: the sequential one, or the parallel one with overwrite set and
\* skip_existing not set
ConvertedAll ==
    /\ input_kind = "dir"
    /\ pc \in {"done", "no_pdfs"}
    /\ io_failed = {}
    /\ \/ entry = "simple"
       \/ Enterprise /\ overwrite /\ ~skip_existing

\* C20: the sequential converter and the parallel converter run with
\* overwrite set and skip_existing not set are equivalent on the output
\* tree.  Over the same input directory, initial output tree and
\* extractors, both end with the output files the loop of pdf_to_text.py
\* leaves when it goes through the list of PDFs, for every worker count and
\* interleaving; a file whose extraction fails leaves the others processed.
C20_SameOutputTree ==
    ConvertedAll => out_files = seq.simple

====
